---- MODULE Spec2Model ----
(***************************************************************************)
(* Fable RAG system: the HTTP handlers (src/src/handlers), the provider    *)
(* registry and its cache (src/src/dependencies.py), the request schemas   *)
(* (src/src/models/requests.py) and the vector-store manager               *)
(* (src/backend/src/qdrant_manager.py), as one state machine.              *)
(*                                                                         *)
(* Every handler is an `async def` without an await, so one request is     *)
(* handled in one step: each handler is one action.                        *)
(*                                                                         *)
(* Python's Optional[T] is modelled as a sequence: None is <<>> and a      *)
(* value v is <<v>>.                                                       *)
(***************************************************************************)
EXTENDS Integers, Sequences, FiniteSets, TLC

VARIABLES
    LLM_PROVIDERS,          \* config.py: the provider allow-list (a list)
    LLM_DEFAULT_PROVIDER,   \* config.py: the default provider name
    OLLAMA_MODELS,          \* config.py: the ollama model allow-list (a list)
    embedding_model,        \* dependencies.py: None or the embedder
    qdrant_manager,         \* dependencies.py: None or the store manager
    llm_providers_cache,    \* dependencies.py: dict cache key -> backend instance
    store,                  \* the vector database: the ids of the stored points
    ctor_count,             \* observer: successful constructions per cache key
    ctor_failed,            \* observer: the cache keys whose construction has failed
    ollama,                 \* an Ollama backend object on its own: None or its fields
    cli,                    \* a CLI backend's generate call on its own: None or its progress
    race,                   \* two requests in flight together: None or their progress
    initdb,                 \* a run of the init_database script: None or its progress
    last                    \* observer: what the last handled request did

vars == <<LLM_PROVIDERS, LLM_DEFAULT_PROVIDER, OLLAMA_MODELS, embedding_model,
          qdrant_manager, llm_providers_cache, store, ctor_count, ctor_failed,
          ollama, cli, race, initdb, last>>

\* The backend objects exercised on their own, outside a request.
units == <<ollama, cli, race, initdb>>

config == <<LLM_PROVIDERS, LLM_DEFAULT_PROVIDER, OLLAMA_MODELS>>

-----------------------------------------------------------------------------
(* Bounds of the model                                                     *)

\* Number of points the ingested collection holds.
NumPoints == 3

-----------------------------------------------------------------------------
(* Python values                                                           *)

None == <<>>

Some(v) == <<v>>

\* Python truthiness of an Optional[str]: None and "" are falsy.
Truthy(opt) == opt # None /\ opt[1] # ""

\* `a or b` on Optional[str] operands.
Or(a, b) == IF Truthy(a) THEN a ELSE b

\* `x in lst` for a list.
InList(x, lst) == \E i \in 1..Len(lst) : lst[i] = x

\* str() of an Optional[str], as an f-string renders it.
Fmt(opt) == IF opt = None THEN "None" ELSE opt[1]

\* str() of a small integer.
Str(n) ==
    CASE n = 0 -> "0" [] n = 1 -> "1" [] n = 2 -> "2" [] n = 3 -> "3"
      [] n = 4 -> "4" [] n = 5 -> "5" [] n = 6 -> "6" [] n = 7 -> "7"
      [] n = 8 -> "8" [] n = 9 -> "9"
      [] OTHER -> "n"

RECURSIVE Join(_, _)
\* sep.join(parts)
Join(sep, parts) ==
    IF parts = <<>> THEN ""
    ELSE IF Len(parts) = 1 THEN parts[1]
    ELSE parts[1] \o sep \o Join(sep, Tail(parts))

\* str() of an HTTP status code.
StatusStr(n) ==
    CASE n = 400 -> "400" [] n = 404 -> "404" [] n = 422 -> "422"
      [] n = 500 -> "500" [] n = 503 -> "503"
      [] OTHER -> "nnn"

\* An exception that is not an HTTPException; message is its str().
Exception(message) ==
    [is_http |-> FALSE, status_code |-> 0, detail |-> "", message |-> message]

\* fastapi.HTTPException(status_code, detail); its str() is "<status>: <detail>".
HTTPException(status_code, detail) ==
    [ is_http |-> TRUE, status_code |-> status_code, detail |-> detail,
      message |-> StatusStr(status_code) \o ": " \o detail ]

\* The result of a call that may raise.
Returned(value) == [raised |-> FALSE, value |-> value, exc |-> Exception("")]

Raised(exc) == [raised |-> TRUE, value |-> <<>>, exc |-> exc]

-----------------------------------------------------------------------------
(* Configuration, read from the environment once at import                 *)

\* The configurations considered.  LLM_DEFAULT_PROVIDER is read from the
\* environment and need not be a member of LLM_PROVIDERS; the entries of both
\* lists are stripped and never empty; "mistral" is a name the registry does
\* not know.
Configs ==
    { \* nothing set in the environment
      [providers |-> <<"ollama">>, default |-> "ollama", models |-> <<>>],
      [providers |-> <<"ollama">>, default |-> "ollama", models |-> <<"m1", "m2">>],
      [providers |-> <<"ollama", "codex">>, default |-> "codex", models |-> <<>>],
      \* a default that is not enabled
      [providers |-> <<"claude_code", "gemini_cli">>, default |-> "ollama", models |-> <<"m1">>],
      \* an enabled name without a backend
      [providers |-> <<"ollama", "mistral">>, default |-> "mistral", models |-> <<"m1">>] }

COLLECTION_NAME == "fables"

-----------------------------------------------------------------------------
(* Request schemas (pydantic): a body that fails them is answered 422      *)
(* before the handler runs.  Scores and thresholds are in hundredths.      *)

SEARCH_LIMIT_MAX == 20

GENERATE_LIMIT_MAX == 10

THRESHOLD_MAX == 100

SearchRequestValid(body) ==
    /\ Len(body.query) >= 1
    /\ body.limit >= 1 /\ body.limit <= SEARCH_LIMIT_MAX
    /\ \/ body.score_threshold = None
       \/ body.score_threshold[1] >= 0 /\ body.score_threshold[1] <= THRESHOLD_MAX

\* A variant of the /generate schema that carries the /search limit range.
GenerateRequestValid_SearchRange(body) ==
    /\ Len(body.query) >= 1
    /\ body.limit >= 1 /\ body.limit <= SEARCH_LIMIT_MAX

GenerateRequestValid(body) ==
    /\ Len(body.query) >= 1
    /\ body.limit >= 1 /\ body.limit <= GENERATE_LIMIT_MAX

\* Bodies a client can post to /search: the valid ones, and some the schema rejects.
SearchBodies ==
    [ query : {"honesty", "race"},
      limit : {1, 2, SEARCH_LIMIT_MAX},
      score_threshold : {None, Some(0), Some(60), Some(THRESHOLD_MAX)} ]
    \cup
    { [query |-> "", limit |-> 1, score_threshold |-> None],
      [query |-> "honesty", limit |-> 0, score_threshold |-> None],
      [query |-> "honesty", limit |-> SEARCH_LIMIT_MAX + 1, score_threshold |-> None],
      [query |-> "honesty", limit |-> 1, score_threshold |-> Some(THRESHOLD_MAX + 1)] }

\* Bodies a client can post to /generate: the valid ones, and some the schema rejects.
GenerateBodies ==
    [ query : {"honesty"},
      limit : {1, GENERATE_LIMIT_MAX},
      provider : {None, Some(""), Some("ollama"), Some("codex"), Some("claude_code"),
                  Some("gemini_cli"), Some("mistral")},
      ollama_model : {None, Some(""), Some("m1"), Some("m2")} ]
    \cup
    { [query |-> "", limit |-> 1, provider |-> None, ollama_model |-> None],
      [query |-> "honesty", limit |-> 0, provider |-> Some("nonexistent"), ollama_model |-> None],
      [query |-> "honesty", limit |-> GENERATE_LIMIT_MAX + 1, provider |-> None,
       ollama_model |-> None] }

-----------------------------------------------------------------------------
(* The embedder and the vector database                                    *)

PointIds == 1..NumPoints

\* The stored vector of a point (unit vectors, in tenths).
PointVector(p) ==
    CASE p % 4 = 1 -> <<6, 8>>
      [] p % 4 = 2 -> <<8, 6>>
      [] p % 4 = 3 -> <<6, -8>>
      [] OTHER -> <<-6, -8>>

\* The payload init_fables_collection stores with a point.
Payload(p) ==
    [ title |-> "Fable-" \o Str(p),
      content |-> "Story-" \o Str(p),
      moral |-> "Moral-" \o Str(p),
      language |-> "en",
      number |-> p,
      word_count |-> 10 + p ]

\* EmbeddingModel.encode_single: deterministic for a fixed model and text.
encode_single(text) ==
    CASE text = "honesty" -> <<10, 0>>
      [] text = "race" -> <<0, 10>>
      [] OTHER -> <<7, 7>>

\* Cosine similarity of a query vector and a point, in hundredths.
Score(vec, p) == vec[1] * PointVector(p)[1] + vec[2] * PointVector(p)[2]

Min(a, b) == IF a < b THEN a ELSE b

\* The points a search may return: those of the collection at or above the threshold.
Eligible(call) ==
    { p \in store[1] :
        call.score_threshold = None \/ Score(call.query_vector, p) >= call.score_threshold[1] }

\* The rankings the database may answer a search with: the `limit` best eligible
\* points, best first; the order among equal scores is the database's choice.
Rankings(call) ==
    LET el == Eligible(call)
        k == Min(call.limit, Cardinality(el))
    IN { r \in [1..k -> el] :
           /\ \A i, j \in 1..k : i # j => r[i] # r[j]
           /\ \A i \in 1..k : \A j \in 1..k :
                i < j => Score(call.query_vector, r[i]) >= Score(call.query_vector, r[j])
           /\ \A p \in el : (\A i \in 1..k : r[i] # p) =>
                \A i \in 1..k : Score(call.query_vector, r[i]) >= Score(call.query_vector, p) }

\* A ScoredPoint of the database client.
ScoredPoint(call, p) ==
    [ id |-> p, version |-> 0, score |-> Score(call.query_vector, p),
      payload |-> Payload(p), vector |-> None ]

\* What self.client.search can do with a call: raise (connection lost, or no
\* such collection), or return the ranked points.
ClientSearch(call) ==
    {Raised(Exception("Search failed"))} \cup
    ( IF store = None \/ call.collection_name # COLLECTION_NAME THEN {}
      ELSE { Returned([i \in 1..Len(r) |-> ScoredPoint(call, r[i])]) : r \in Rankings(call) } )

\* QdrantManager.search: the keyword arguments it hands to self.client.search.
QdrantSearchCall(collection_name, query_vector, limit, score_threshold) ==
    [ collection_name |-> collection_name, query_vector |-> query_vector,
      limit |-> limit, score_threshold |-> score_threshold ]

\* A variant without the try/except: the client's exception propagates.
QdrantSearchReturn_Propagates(reply) ==
    IF reply.raised THEN [raised |-> TRUE, value |-> <<>>, exc |-> reply.exc]
    ELSE [ raised |-> FALSE, exc |-> reply.exc,
           value |-> [ i \in 1..Len(reply.value) |->
                         [ id |-> reply.value[i].id, score |-> reply.value[i].score,
                           payload |-> reply.value[i].payload ] ] ]

\* QdrantManager.search: its result for the client's reply: the list of
\* result dicts, and the empty list when the client raised.
QdrantSearchReturn(reply) ==
    IF reply.raised THEN Returned(<<>>)
    ELSE Returned([ i \in 1..Len(reply.value) |->
                      [ id |-> reply.value[i].id, score |-> reply.value[i].score,
                        payload |-> reply.value[i].payload ] ])

\* FableResult(...) as both handlers build it from a search result.
FableResult(result) ==
    [ id |-> result.id,
      title |-> result.payload.title,
      content |-> result.payload.content,
      moral |-> result.payload.moral,
      score |-> result.score,
      language |-> result.payload.language,
      word_count |-> result.payload.word_count ]

-----------------------------------------------------------------------------
(* What the observer records of a handled request                          *)

Call(fn, args) == [fn |-> fn, args |-> args]

Response(status_code, detail, body) ==
    [status_code |-> status_code, detail |-> detail, body |-> body]

\* FastAPI's answer to an HTTPException raised by a handler.
Raise(exc) == Response(exc.status_code, exc.detail, None)

\* FastAPI's answer to a body that fails the request schema.
Unprocessable == Response(422, "validation error", None)

HandledKey(op, request, response, calls, cache_key) ==
    [ op |-> op, request |-> request, status_code |-> response.status_code,
      detail |-> response.detail, body |-> response.body, calls |-> calls,
      cache_before |-> llm_providers_cache, cache_key |-> cache_key,
      failed_before |-> ctor_failed ]

Handled(op, request, response, calls) == HandledKey(op, request, response, calls, None)

NoRequest ==
    [ op |-> "none", request |-> None, status_code |-> 0, detail |-> "",
      body |-> None, calls |-> <<>>, cache_before |-> <<>>, cache_key |-> None,
      failed_before |-> {} ]

\* A variant in which a call is made a second time.
Issued_Twice(call) == <<call, call>>

\* The collaborator calls of a handler are single statements outside any
\* loop: each one that is reached is made, and logged, once.
Issued(call) == <<call>>

\* A variant in which a search on a missing collection creates it.
StoreAfterCall_SearchCreates(call, s) ==
    IF call.fn = "search" /\ s = None THEN Some({}) ELSE s

\* What a collaborator call made by a request handler does to the store:
\* client.search, client.retrieve and client.get_collection read it, and the
\* embedder and the backends do not reach it.
StoreAfterCall(call, s) == s

\* The store after the calls of a handler, made in order.
RECURSIVE StoreAfter(_, _)
StoreAfter(calls, s) ==
    IF calls = <<>> THEN s ELSE StoreAfter(Tail(calls), StoreAfterCall(Head(calls), s))

\* The server takes a request once the response to the one before is sent.
Idle == last = NoRequest

\* The server sends the response of the handled request.
send_response ==
    /\ last # NoRequest
    /\ last' = NoRequest
    /\ UNCHANGED <<config, units, embedding_model, qdrant_manager, llm_providers_cache,
                   store, ctor_count, ctor_failed>>

-----------------------------------------------------------------------------
(* POST /search  (src/src/handlers/search.py)                              *)

\* A variant of the guard that looks at the embedder alone.
NotInitialized_EmbedderOnly == embedding_model = None

\* if deps.embedding_model is None or deps.qdrant_manager is None: the guard
\* that opens search_fables, generate_answer and health_check.
NotInitialized == embedding_model = None \/ qdrant_manager = None

\* A variant that passes the threshold only when it is truthy, losing 0.
SearchHandlerCall_DropsZero(request, query_vector) ==
    [ collection_name |-> COLLECTION_NAME, query_vector |-> query_vector,
      limit |-> request.limit,
      score_threshold |-> IF request.score_threshold # None /\ request.score_threshold[1] # 0
                          THEN request.score_threshold ELSE None ]

\* search_fables: the arguments of its deps.qdrant_manager.search call.
SearchHandlerCall(request, query_vector) ==
    [ collection_name |-> COLLECTION_NAME, query_vector |-> query_vector,
      limit |-> request.limit, score_threshold |-> request.score_threshold ]

\* A variant that lists the results in the reverse order.
SearchResponse_Reversed(request, results) ==
    LET n == Len(results)
        fable_results == [i \in 1..n |-> [ id |-> results[n + 1 - i].id,
                                           title |-> results[n + 1 - i].payload.title,
                                           content |-> results[n + 1 - i].payload.content,
                                           moral |-> results[n + 1 - i].payload.moral,
                                           score |-> results[n + 1 - i].score,
                                           language |-> results[n + 1 - i].payload.language,
                                           word_count |-> results[n + 1 - i].payload.word_count ]]
    IN [ query |-> request.query, results |-> fable_results,
         total_results |-> Len(fable_results) ]

\* search_fables: the SearchResponse built from the manager's results.
SearchResponse(request, results) ==
    LET fable_results == [i \in 1..Len(results) |-> FableResult(results[i])]
    IN [ query |-> request.query, results |-> fable_results,
         total_results |-> Len(fable_results) ]

\* search_fables: its `except Exception` clause, which takes every exception
\* raised inside the try block.
SearchExcept(exc) == Raise(HTTPException(500, "Search failed: " \o exc.message))

search_fables(body) ==
    /\ Idle
    /\ body \in SearchBodies
    /\ UNCHANGED <<config, units, embedding_model, qdrant_manager, llm_providers_cache,
                   ctor_count, ctor_failed>>
    /\ IF ~SearchRequestValid(body)
       THEN last' = Handled("search", body, Unprocessable, <<>>)
       ELSE IF NotInitialized
       THEN last' = Handled("search", body,
                            Raise(HTTPException(503, "System not initialized yet")), <<>>)
       ELSE \E encode_raises \in BOOLEAN :
              IF encode_raises
              THEN last' = Handled("search", body, SearchExcept(Exception("encode error")),
                                   Issued(Call("encode_single",
                                               [text |-> body.query, raised |-> TRUE])))
              ELSE LET query_vector == encode_single(body.query)
                       call == SearchHandlerCall(body, query_vector)
                       client_call == QdrantSearchCall(call.collection_name, call.query_vector,
                                                       call.limit, call.score_threshold)
                   IN \E reply \in ClientSearch(client_call) :
                        LET results == QdrantSearchReturn(reply)
                            calls == Issued(Call("encode_single",
                                                 [text |-> body.query, raised |-> FALSE]))
                                     \o Issued(Call("search",
                                                    [call |-> call, client_call |-> client_call,
                                                     reply |-> reply, result |-> results]))
                        IN last' = Handled("search", body,
                                           IF results.raised THEN SearchExcept(results.exc)
                                           ELSE Response(200, "", Some(SearchResponse(body, results.value))),
                                           calls)
    /\ store' = StoreAfter(last'.calls, store)

-----------------------------------------------------------------------------
(* Generation backends  (package src.llm)                                  *)

\* What the daemon can answer when the Ollama constructor lists its models.
DaemonListings ==
    { [raised |-> TRUE, models |-> <<>>],
      [raised |-> FALSE, models |-> <<>>],
      [raised |-> FALSE, models |-> <<"m1">>],
      [raised |-> FALSE, models |-> <<"m2", "m1">>] }

Constructed(kind, model) == Returned([kind |-> kind, model |-> model])

\* An Ollama object: its active model and the models it listed at construction.
OllamaObject(model, available_models) ==
    Returned([kind |-> "Ollama", model |-> model, available_models |-> available_models])

ConstructionError(error) == Raised(Exception(error))

\* A variant that takes a requested model without looking it up in the listing.
Ollama_Unchecked(model, listing) ==
    IF listing.raised \/ listing.models = <<>>
    THEN ConstructionError("No models available")
    ELSE OllamaObject(IF model # None THEN model ELSE Some(listing.models[1]),
                      listing.models)

\* Ollama(model=...): lists the daemon's models and selects the active one.
Ollama(model, listing) ==
    IF listing.raised \/ listing.models = <<>>
    THEN ConstructionError("No models available")
    ELSE IF model # None
    THEN IF InList(model[1], listing.models)
         THEN OllamaObject(model, listing.models)
         ELSE ConstructionError("Model '" \o model[1] \o "' not found")
    ELSE OllamaObject(Some(listing.models[1]), listing.models)

\* A variant that switches the active model without looking the name up.
SetModel_Unchecked(self, model_name) ==
    Returned([self EXCEPT !.model = Some(model_name)])

\* Ollama.set_model(name): the object with the name active, or a ValueError
\* for a name that is not among the listed models.
SetModel(self, model_name) ==
    IF InList(model_name, self.available_models)
    THEN Returned([self EXCEPT !.model = Some(model_name)])
    ELSE Raised(Exception("Model '" \o model_name \o "' not found"))

\* Model names a caller may ask an Ollama object for.
ModelNames == {"m1", "m2", "m3"}

\* oll = Ollama(model=...): on success the name is bound to the new object.
ollama_init(model, listing) ==
    /\ LET made == Ollama(model, listing)
       IN /\ ollama' = IF made.raised THEN ollama ELSE Some(made.value)
          /\ last' = Handled("Ollama", [model |-> model, listing |-> listing],
                             Response(0, "", Some(made)), <<>>)
    /\ UNCHANGED <<config, embedding_model, qdrant_manager, llm_providers_cache,
                   store, ctor_count, ctor_failed, cli, race, initdb>>

\* oll.set_model(model_name)
set_model(model_name) ==
    /\ ollama # None
    /\ LET result == SetModel(ollama[1], model_name)
       IN /\ ollama' = IF result.raised THEN ollama ELSE Some(result.value)
          /\ last' = Handled("set_model", [model_name |-> model_name, self |-> ollama[1]],
                             Response(0, "", Some(result)), <<>>)
    /\ UNCHANGED <<config, embedding_model, qdrant_manager, llm_providers_cache,
                   store, ctor_count, ctor_failed, cli, race, initdb>>

OllamaNext ==
    \/ \E model \in {None} \cup {Some(n) : n \in ModelNames}, listing \in DaemonListings :
         ollama_init(model, listing)
    \/ \E model_name \in ModelNames : set_model(model_name)

\* ClaudeCLI(), GeminiCLI(), CodexCLI(): probe that the executable exists.
CLIBackend(kind, tool, tool_found) ==
    IF tool_found THEN Constructed(kind, None)
    ELSE ConstructionError(tool \o " CLI not found")

\* How one run of a backend's generate can go: for the daemon the request
\* succeeds or fails; for a CLI tool the process prints JSON with the
\* variant's field, prints other text, exits non-zero, outlives the timeout,
\* or cannot be spawned; codex's second-stage filter process can fail too.
GenerateRuns(kind) ==
    IF kind = "Ollama" THEN {"response", "error"}
    ELSE {"json", "raw", "nonzero_exit", "timeout", "exception"}
         \cup (IF kind = "CodexCLI" THEN {"filter_failed"} ELSE {})

\* A variant that lets the subprocess timeout propagate to the caller.
BackendGenerate_TimeoutRaises(kind, run) ==
    CASE run = "response" -> Returned(Some("Test response"))
      [] run = "json" -> Returned(Some("Test response"))
      [] run = "raw" -> Returned(Some("Raw text response"))
      [] run = "timeout" -> Raised(Exception("TimeoutExpired"))
      [] OTHER -> Returned(None)

\* backend.generate(prompt): the text (the variant's JSON field, else the
\* raw output), or None for every failure; it does not raise.
BackendGenerate(kind, run) ==
    CASE run = "response" -> Returned(Some("Test response"))
      [] run = "json" -> Returned(Some("Test response"))
      [] run = "raw" -> Returned(Some("Raw text response"))
      [] OTHER -> Returned(None)

\* The child processes one generate call of a CLI backend spawns: the tool,
\* and for codex the filter process its output is piped through.
Children(kind) == IF kind = "CodexCLI" THEN {"tool", "filter"} ELSE {"tool"}

\* A generate call of a CLI backend in progress: where it is, the children it
\* has spawned, those still running, those it has killed, how the run went
\* and what it returned.
CLICall(kind, pc, spawned, running, killed, run, result) ==
    [ kind |-> kind, pc |-> pc, spawned |-> spawned, running |-> running,
      killed |-> killed, run |-> run, result |-> result ]

\* cli.generate(prompt) is called on a backend of the kind.
cli_generate(kind) ==
    /\ IF cli = None THEN TRUE ELSE cli[1].pc = "returned"
    /\ cli' = Some(CLICall(kind, "spawning", {}, {}, {}, "", None))
    /\ UNCHANGED <<config, embedding_model, qdrant_manager, llm_providers_cache,
                   store, ctor_count, ctor_failed, race, initdb, ollama, last>>

\* generate spawns its children, or spawning raises and it returns None.
cli_spawn ==
    /\ cli # None /\ cli[1].pc = "spawning"
    /\ \E spawn_ok \in BOOLEAN :
         cli' = IF spawn_ok
                THEN Some(CLICall(cli[1].kind, "waiting", Children(cli[1].kind),
                                  Children(cli[1].kind), {}, "", None))
                ELSE Some(CLICall(cli[1].kind, "returned", {}, {}, {}, "exception",
                                  BackendGenerate(cli[1].kind, "exception").value))
    /\ UNCHANGED <<config, embedding_model, qdrant_manager, llm_providers_cache,
                   store, ctor_count, ctor_failed, race, initdb, ollama, last>>

\* generate waits for its children up to the timeout: they exit on their own
\* and it returns what the run gives, or the timeout expires with the
\* children still running.
cli_wait ==
    /\ cli # None /\ cli[1].pc = "waiting"
    /\ \E run \in GenerateRuns(cli[1].kind) :
         cli' = IF run = "timeout"
                THEN Some([cli[1] EXCEPT !.pc = "timed_out", !.run = run])
                ELSE Some([cli[1] EXCEPT !.pc = "returned", !.running = {}, !.run = run,
                                         !.result = BackendGenerate(cli[1].kind, run).value])
    /\ UNCHANGED <<config, embedding_model, qdrant_manager, llm_providers_cache,
                   store, ctor_count, ctor_failed, race, initdb, ollama, last>>

\* After the timeout generate kills a child that is still running.
cli_kill ==
    /\ cli # None /\ cli[1].pc = "timed_out"
    /\ \E child \in cli[1].running :
         cli' = Some([cli[1] EXCEPT !.running = @ \ {child}, !.killed = @ \cup {child}])
    /\ UNCHANGED <<config, embedding_model, qdrant_manager, llm_providers_cache,
                   store, ctor_count, ctor_failed, race, initdb, ollama, last>>

\* A variant that is satisfied once the tool process is gone.
Terminated_ToolOnly(self) == "tool" \notin self.running

\* Every child the call spawned has been terminated.
Terminated(self) == self.running = {}

\* After the timeout, with its children terminated, generate returns None.
cli_return ==
    /\ cli # None /\ cli[1].pc = "timed_out"
    /\ Terminated(cli[1])
    /\ cli' = Some([cli[1] EXCEPT !.pc = "returned",
                                  !.result = BackendGenerate(cli[1].kind, "timeout").value])
    /\ UNCHANGED <<config, embedding_model, qdrant_manager, llm_providers_cache,
                   store, ctor_count, ctor_failed, race, initdb, ollama, last>>

CLINext ==
    \/ \E kind \in {"ClaudeCLI", "GeminiCLI", "CodexCLI"} : cli_generate(kind)
    \/ cli_spawn
    \/ cli_wait
    \/ cli_kill
    \/ cli_return

-----------------------------------------------------------------------------
(* Provider registry  (src/src/dependencies.py)                            *)

\* What the environment decides when a backend is constructed: the daemon's
\* listing for ollama, whether the executable is installed for a CLI tool.
ConstructionEnvs(provider_name) ==
    IF provider_name = "ollama"
    THEN [listing : DaemonListings, tool_found : {FALSE}]
    ELSE [listing : {[raised |-> TRUE, models |-> <<>>]}, tool_found : BOOLEAN]

\* get_llm_provider: dispatch on the provider name.
get_llm_provider(provider_name, ollama_model, env) ==
    CASE provider_name = "ollama" -> Ollama(ollama_model, env.listing)
      [] provider_name = "gemini_cli" -> CLIBackend("GeminiCLI", "gemini", env.tool_found)
      [] provider_name = "claude_code" -> CLIBackend("ClaudeCLI", "claude", env.tool_found)
      [] provider_name = "codex" -> CLIBackend("CodexCLI", "codex", env.tool_found)
      [] OTHER -> ConstructionError("Unknown LLM provider: " \o provider_name)

-----------------------------------------------------------------------------
(* POST /generate  (src/src/handlers/generate.py)                          *)

\* provider_name = request.provider or LLM_DEFAULT_PROVIDER
ResolveProvider(request) == Or(request.provider, Some(LLM_DEFAULT_PROVIDER))[1]

\* A variant that tests the name against the registry's names, not the allow-list.
ProviderRejected_Registry(provider_name) ==
    ~InList(provider_name, <<"ollama", "gemini_cli", "claude_code", "codex">>)

\* provider_name not in LLM_PROVIDERS
ProviderRejected(provider_name) == ~InList(provider_name, LLM_PROVIDERS)

\* selected_model: None unless the provider is ollama, and then
\* request.ollama_model or (OLLAMA_MODELS[0] if OLLAMA_MODELS else None)
SelectModel(request, provider_name) ==
    IF provider_name = "ollama"
    THEN Or(request.ollama_model,
            IF OLLAMA_MODELS # <<>> THEN Some(OLLAMA_MODELS[1]) ELSE None)
    ELSE None

\* A variant that takes an empty model allow-list to allow every model.
ModelRejected_EmptyAllowsAll(provider_name, selected_model) ==
    /\ provider_name = "ollama"
    /\ Truthy(selected_model)
    /\ OLLAMA_MODELS # <<>>
    /\ ~InList(selected_model[1], OLLAMA_MODELS)

\* selected_model and selected_model not in OLLAMA_MODELS
ModelRejected(provider_name, selected_model) ==
    /\ provider_name = "ollama"
    /\ Truthy(selected_model)
    /\ ~InList(selected_model[1], OLLAMA_MODELS)

\* cache_key = f"{provider_name}:{selected_model}" if ollama else provider_name
CacheKey(provider_name, selected_model) ==
    IF provider_name = "ollama"
    THEN provider_name \o ":" \o Fmt(selected_model)
    ELSE provider_name

\* A variant without the cache lookup: every request constructs.
NeedsConstruction_Always(cache_key) == TRUE

\* cache_key not in deps.llm_providers_cache
NeedsConstruction(cache_key) == cache_key \notin DOMAIN llm_providers_cache

\* A variant that rebinds the cache to a dict holding the new entry alone.
CacheStore_Replace(cache, cache_key, llm) == [k \in {cache_key} |-> llm]

\* deps.llm_providers_cache[cache_key] = <the backend just constructed>
CacheStore(cache, cache_key, llm) ==
    [k \in DOMAIN cache \cup {cache_key} |-> IF k = cache_key THEN llm ELSE cache[k]]

\* A variant that numbers the entries from 0, as a bare enumerate() does.
BuildContext_FromZero(results) ==
    Join("\n\n",
         [ i \in 1..Len(results) |->
             "Fable " \o Str(i - 1) \o ": " \o results[i].payload.title \o "\n"
             \o "Content: " \o results[i].payload.content \o "\n"
             \o "Moral: " \o results[i].payload.moral ])

\* The context: one entry per result, numbered from 1, joined by blank lines.
BuildContext(results) ==
    Join("\n\n",
         [ i \in 1..Len(results) |->
             "Fable " \o Str(i) \o ": " \o results[i].payload.title \o "\n"
             \o "Content: " \o results[i].payload.content \o "\n"
             \o "Moral: " \o results[i].payload.moral ])

BuildPrompt(context, query) ==
    "Based on the following fables, answer the user's question.\n\n"
    \o context
    \o "\n\nUser's question: " \o query
    \o "\n\nPlease provide a helpful answer based on the fables above. Reference specific fables when relevant."

\* A variant that reports the bare provider name for every provider.
ProviderInfo_Bare(provider_name, selected_model) == provider_name

\* provider_info: the provider, with the selected model for ollama.
ProviderInfo(provider_name, selected_model) ==
    IF provider_name = "ollama"
    THEN "ollama (" \o Fmt(selected_model) \o ")"
    ELSE provider_name

\* A variant that applies a default score threshold of 0.7.
GenerateHandlerCall_Threshold(request, query_vector) ==
    [ collection_name |-> COLLECTION_NAME, query_vector |-> query_vector,
      limit |-> request.limit, score_threshold |-> Some(70) ]

\* generate_answer: the arguments of its deps.qdrant_manager.search call.
GenerateHandlerCall(request, query_vector) ==
    [ collection_name |-> COLLECTION_NAME, query_vector |-> query_vector,
      limit |-> request.limit, score_threshold |-> None ]

\* A variant without the `except HTTPException: raise` clause.
GenerateExcept_WrapAll(exc) ==
    [ status_code |-> 500, detail |-> "Generate failed: " \o exc.message, body |-> None ]

\* generate_answer: its except clauses: an HTTPException raised inside the
\* try block is raised again as it is, any other exception becomes a 500.
GenerateExcept(exc) ==
    IF exc.is_http THEN Raise(exc)
    ELSE Raise(HTTPException(500, "Generate failed: " \o exc.message))

\* if answer is None
AnswerMissing(answer) == answer = None

\* A variant that reports the sources in the reverse order.
GenerateResponse_SourcesReversed(request, answer, results, provider_info) ==
    [ query |-> request.query, answer |-> answer,
      sources |-> [i \in 1..Len(results) |-> FableResult(results[Len(results) + 1 - i])],
      llm_provider |-> provider_info ]

\* The GenerateResponse of a request that succeeded.
GenerateResponse(request, answer, results, provider_info) ==
    [ query |-> request.query, answer |-> answer,
      sources |-> [i \in 1..Len(results) |-> FableResult(results[i])],
      llm_provider |-> provider_info ]

\* A variant that reports a construction failure as the generic error.
InitializeFailed_Generic(provider_name, exc) ==
    Raise(HTTPException(500, "Generate failed: " \o exc.message))

\* generate_answer: the except clause around get_llm_provider.
InitializeFailed(provider_name, exc) ==
    Raise(HTTPException(500, "Failed to initialize " \o provider_name \o ": " \o exc.message))

\* A variant that caches a placeholder for the key when construction fails.
CacheAfterFailure_Placeholder(cache, cache_key) ==
    [ k \in DOMAIN cache \cup {cache_key} |->
        IF k = cache_key THEN [ident |-> <<cache_key, 0>>, kind |-> "", model |-> None]
        ELSE cache[k] ]

\* The cache after get_llm_provider raised: the assignment did not happen.
CacheAfterFailure(cache, cache_key) == cache

\* The try block once llm.generate has returned or raised.
AfterGenerate(body, provider_name, selected_model, results, generated) ==
    IF generated.raised THEN GenerateExcept(generated.exc)
    ELSE IF AnswerMissing(generated.value)
    THEN GenerateExcept(HTTPException(500, "LLM failed to generate response"))
    ELSE IF generated.value = None
    THEN GenerateExcept(Exception("GenerateResponse: answer is not a string"))
    ELSE Response(200, "",
                  Some(GenerateResponse(body, generated.value[1], results,
                                        ProviderInfo(provider_name, selected_model))))

\* The part of generate_answer after the backend is in hand (the try block).
\* `pre` are the calls made so far.
GenerateWith(body, provider_name, selected_model, cache_key, llm, pre) ==
    \E encode_raises \in BOOLEAN :
      IF encode_raises
      THEN last' = HandledKey("generate", body, GenerateExcept(Exception("encode error")),
                              pre \o Issued(Call("encode_single",
                                                 [text |-> body.query, raised |-> TRUE])),
                              Some(cache_key))
      ELSE LET query_vector == encode_single(body.query)
               encoded == Call("encode_single", [text |-> body.query, raised |-> FALSE])
               call == GenerateHandlerCall(body, query_vector)
               client_call == QdrantSearchCall(call.collection_name, call.query_vector,
                                               call.limit, call.score_threshold)
           IN \E reply \in ClientSearch(client_call) :
                LET found == QdrantSearchReturn(reply)
                    searched == Call("search", [call |-> call, client_call |-> client_call,
                                                reply |-> reply, result |-> found])
                IN IF found.raised
                   THEN last' = HandledKey("generate", body, GenerateExcept(found.exc),
                                           pre \o Issued(encoded) \o Issued(searched),
                                           Some(cache_key))
                   ELSE \E run \in GenerateRuns(llm.kind) :
                          LET results == found.value
                              prompt == BuildPrompt(BuildContext(results), body.query)
                              generated == BackendGenerate(llm.kind, run)
                              calls == pre \o Issued(encoded) \o Issued(searched)
                                       \o Issued(Call("generate",
                                                      [llm |-> llm, prompt |-> prompt,
                                                       run |-> run, result |-> generated]))
                          IN last' = HandledKey("generate", body,
                                                AfterGenerate(body, provider_name, selected_model,
                                                              results, generated),
                                                calls, Some(cache_key))

\* The observer's count of successful constructions, after one more for a key.
Counted(count, cache_key) ==
    [ k \in DOMAIN count \cup {cache_key} |->
        IF k = cache_key THEN (IF k \in DOMAIN count THEN count[k] + 1 ELSE 1)
        ELSE count[k] ]

generate_answer(body) ==
    /\ Idle
    /\ body \in GenerateBodies
    /\ UNCHANGED <<config, units, embedding_model, qdrant_manager>>
    /\ IF ~GenerateRequestValid(body)
       THEN /\ last' = Handled("generate", body, Unprocessable, <<>>)
            /\ UNCHANGED <<llm_providers_cache, ctor_count, ctor_failed>>
       ELSE IF NotInitialized
       THEN /\ last' = Handled("generate", body,
                               Raise(HTTPException(503, "System not initialized yet")), <<>>)
            /\ UNCHANGED <<llm_providers_cache, ctor_count, ctor_failed>>
       ELSE LET provider_name == ResolveProvider(body) IN
            IF ProviderRejected(provider_name)
            THEN /\ last' = Handled("generate", body,
                                    Raise(HTTPException(400, "Provider '" \o provider_name \o "' not available")),
                                    <<>>)
                 /\ UNCHANGED <<llm_providers_cache, ctor_count, ctor_failed>>
            ELSE LET selected_model == SelectModel(body, provider_name) IN
                 IF ModelRejected(provider_name, selected_model)
                 THEN /\ last' = Handled("generate", body,
                                         Raise(HTTPException(400, "Model '" \o Fmt(selected_model) \o "' not available")),
                                         <<>>)
                      /\ UNCHANGED <<llm_providers_cache, ctor_count, ctor_failed>>
                 ELSE LET cache_key == CacheKey(provider_name, selected_model) IN
                      IF NeedsConstruction(cache_key)
                      THEN \E env \in ConstructionEnvs(provider_name) :
                             LET made == get_llm_provider(provider_name, selected_model, env)
                                 pre == Issued(Call("get_llm_provider",
                                                    [provider_name |-> provider_name,
                                                     ollama_model |-> selected_model,
                                                     result |-> made]))
                             IN IF made.raised
                                THEN /\ last' = HandledKey("generate", body,
                                                           InitializeFailed(provider_name, made.exc),
                                                           pre, Some(cache_key))
                                     /\ llm_providers_cache' = CacheAfterFailure(llm_providers_cache, cache_key)
                                     /\ ctor_failed' = ctor_failed \cup {cache_key}
                                     /\ UNCHANGED ctor_count
                                ELSE LET counted == Counted(ctor_count, cache_key)
                                         llm == [ ident |-> <<cache_key, counted[cache_key]>>,
                                                  kind |-> made.value.kind,
                                                  model |-> made.value.model ]
                                     IN /\ ctor_count' = counted
                                        /\ UNCHANGED ctor_failed
                                        /\ llm_providers_cache' = CacheStore(llm_providers_cache, cache_key, llm)
                                        /\ GenerateWith(body, provider_name, selected_model, cache_key,
                                                        llm_providers_cache'[cache_key], pre)
                      ELSE /\ UNCHANGED <<llm_providers_cache, ctor_count, ctor_failed>>
                           /\ GenerateWith(body, provider_name, selected_model, cache_key,
                                           llm_providers_cache[cache_key], <<>>)
    /\ store' = StoreAfter(last'.calls, store)

-----------------------------------------------------------------------------
(* GET /models  (src/src/handlers/health.py)                               *)

ModelsResponse ==
    [ providers |-> LLM_PROVIDERS,
      default_provider |-> LLM_DEFAULT_PROVIDER,
      ollama_models |-> IF InList("ollama", LLM_PROVIDERS) THEN OLLAMA_MODELS ELSE <<>> ]

list_models ==
    /\ Idle
    /\ UNCHANGED <<config, units, embedding_model, qdrant_manager, llm_providers_cache,
                   ctor_count, ctor_failed>>
    /\ last' = Handled("models", None, Response(200, "", Some(ModelsResponse)), <<>>)
    /\ store' = StoreAfter(last'.calls, store)

-----------------------------------------------------------------------------
(* GET /health  (src/src/handlers/health.py)                               *)

\* QdrantManager.get_collection_info: the collection's info, or None when
\* self.client.get_collection raises (no such collection, or a fault).
get_collection_info(collection_name, client_raises) ==
    IF client_raises \/ store = None \/ collection_name # COLLECTION_NAME
    THEN None
    ELSE Some([ name |-> collection_name, vectors_count |-> Cardinality(store[1]),
                points_count |-> Cardinality(store[1]), status |-> "green" ])

\* HealthResponse.llm_provider: f"{', '.join(LLM_PROVIDERS)} (default: {LLM_DEFAULT_PROVIDER})"
HealthProviders == Join(", ", LLM_PROVIDERS) \o " (default: " \o LLM_DEFAULT_PROVIDER \o ")"

\* health_check: the exception raised when the collection's info is None.
CollectionMissing ==
    HTTPException(503, "Collection '" \o COLLECTION_NAME
                       \o "' does not exist, please run init_database.py first")

\* health_check: its except clauses: an HTTPException is re-raised, anything
\* else becomes a 503.
HealthExcept(exc) ==
    IF exc.is_http THEN Raise(exc)
    ELSE Raise(HTTPException(503, "Health check failed: " \o exc.message))

\* health_check: the response for the collection's info.
AfterCollectionInfo(info) ==
    IF info = None THEN HealthExcept(CollectionMissing)
    ELSE Response(200, "", Some([ status |-> "healthy",
                                  message |-> "System running normally",
                                  collection_name |-> COLLECTION_NAME,
                                  total_fables |-> info[1].points_count,
                                  llm_provider |-> HealthProviders ]))

health_check ==
    /\ Idle
    /\ UNCHANGED <<config, units, embedding_model, qdrant_manager, llm_providers_cache,
                   ctor_count, ctor_failed>>
    /\ IF NotInitialized
       THEN last' = Handled("health", None,
                            Raise(HTTPException(503, "System not initialized yet")), <<>>)
       ELSE \E client_raises \in BOOLEAN :
              LET info == get_collection_info(COLLECTION_NAME, client_raises)
                  calls == <<Call("get_collection_info",
                                  [collection_name |-> COLLECTION_NAME, result |-> info])>>
              IN last' = Handled("health", None, AfterCollectionInfo(info), calls)
    /\ store' = StoreAfter(last'.calls, store)

-----------------------------------------------------------------------------
(* GET /health of the standalone backend app  (src/backend/src/main.py)     *)
(* The app keeps its embedder and store manager in module globals of its   *)
(* own; they are constructed at startup like those of src/dependencies.py  *)
(* and stand here under the same two variables.                            *)

\* A variant that answers 500, as the app's other handlers do.
BackendHealthExcept_500(exc) ==
    Raise(HTTPException(500, "Health check failed: " \o exc.message))

\* health_check of the backend app: its single clause `except Exception`,
\* which also catches the HTTPException raised inside the try.
BackendHealthExcept(exc) ==
    Raise(HTTPException(503, "Health check failed: " \o exc.message))

\* health_check of the backend app: the response for the collection's info.
BackendAfterCollectionInfo(info) ==
    IF info = None THEN BackendHealthExcept(CollectionMissing)
    ELSE Response(200, "", Some([ status |-> "healthy",
                                  message |-> "System running normally",
                                  collection_name |-> COLLECTION_NAME,
                                  total_fables |-> info[1].points_count ]))

backend_health_check ==
    /\ Idle
    /\ UNCHANGED <<config, units, embedding_model, qdrant_manager, llm_providers_cache,
                   ctor_count, ctor_failed>>
    /\ IF embedding_model = None \/ qdrant_manager = None
       THEN last' = Handled("backend_health", None,
                            Raise(HTTPException(503, "System not initialized yet")), <<>>)
       ELSE \E client_raises \in BOOLEAN :
              LET info == get_collection_info(COLLECTION_NAME, client_raises)
                  calls == <<Call("get_collection_info",
                                  [collection_name |-> COLLECTION_NAME, result |-> info])>>
              IN last' = Handled("backend_health", None,
                                 BackendAfterCollectionInfo(info), calls)
    /\ store' = StoreAfter(last'.calls, store)

-----------------------------------------------------------------------------
(* GET /fables/{fable_id}  (src/src/handlers/fables.py)                    *)

\* Ids a client can ask for: stored ones and one that is not stored.
FableIds == 1..(NumPoints + 1)

\* What self.client.retrieve can do: raise, or return the points found.
ClientRetrieve(collection_name, ids) ==
    {[raised |-> TRUE, value |-> <<>>]} \cup
    ( IF store = None \/ collection_name # COLLECTION_NAME THEN {}
      ELSE { [raised |-> FALSE,
              value |-> IF ids[1] \in store[1]
                        THEN <<[id |-> ids[1], payload |-> Payload(ids[1])]>>
                        ELSE <<>>] } )

\* A variant without the `except HTTPException: raise` clause.
FablesExcept_WrapAll(exc) ==
    [ status_code |-> 500, detail |-> "Failed to get fable: " \o exc.message, body |-> None ]

\* get_fable_by_id: its except clauses: an HTTPException is re-raised,
\* anything else becomes a 500.
FablesExcept(exc) ==
    IF exc.is_http THEN Raise(exc)
    ELSE Raise(HTTPException(500, "Failed to get fable: " \o exc.message))

\* get_fable_by_id: the response for what client.retrieve did.
AfterRetrieve(fable_id, result) ==
    IF result.raised THEN FablesExcept(Exception("client error"))
    ELSE IF result.value = <<>>
    THEN FablesExcept(HTTPException(404, "Fable with ID " \o Str(fable_id) \o " not found"))
    ELSE LET point == result.value[1]
         IN Response(200, "", Some([ id |-> point.id,
                                     title |-> point.payload.title,
                                     content |-> point.payload.content,
                                     moral |-> point.payload.moral,
                                     language |-> point.payload.language,
                                     word_count |-> point.payload.word_count ]))

get_fable_by_id(fable_id) ==
    /\ Idle
    /\ fable_id \in FableIds
    /\ UNCHANGED <<config, units, embedding_model, qdrant_manager, llm_providers_cache,
                   ctor_count, ctor_failed>>
    /\ IF qdrant_manager = None
       THEN last' = Handled("fables", Some(fable_id),
                            Raise(HTTPException(503, "System not initialized yet")), <<>>)
       ELSE \E result \in ClientRetrieve(COLLECTION_NAME, <<fable_id>>) :
              LET calls == <<Call("retrieve", [ids |-> <<fable_id>>, result |-> result])>>
              IN last' = Handled("fables", Some(fable_id), AfterRetrieve(fable_id, result), calls)
    /\ store' = StoreAfter(last'.calls, store)

-----------------------------------------------------------------------------
(* QdrantManager.create_collection  (src/backend/src/qdrant_manager.py),   *)
(* called by the database initialisation script.                           *)

\* What self.client.get_collections() can do: raise, or list the collections.
ClientGetCollections ==
    { Raised(Exception("connection refused")),
      Returned(IF store = None THEN <<>> ELSE <<COLLECTION_NAME>>) }

\* What self.client.create_collection can do, with the store it leaves: the
\* database refuses a name it has; it creates the (empty) collection; or the
\* call fails, before or after the database has acted on it.
ClientCreateCollection(collection_name) ==
    IF store # None
    THEN { [raised |-> TRUE, store_after |-> store] }
    ELSE { [raised |-> FALSE, store_after |-> Some({})],
           [raised |-> TRUE, store_after |-> store],
           [raised |-> TRUE, store_after |-> Some({})] }

\* A variant that skips the existence check.
AlreadyExists_Never(collection_name, collection_names) == FALSE

\* if collection_name in collection_names
AlreadyExists(collection_name, collection_names) == InList(collection_name, collection_names)

\* The observer's record of a create_collection call: its return value as the
\* body, the client calls it made, the store it found, and the return value
\* of the create_collection call just before it, if that is what came before.
CreateObserved(collection_name, result, calls) ==
    Handled("create_collection",
            [ collection_name |-> collection_name, store_before |-> store,
              previous |-> IF last.op = "create_collection" THEN last.body ELSE None ],
            Response(0, "", Some(result)), calls)

create_collection(collection_name) ==
    /\ Idle \/ last.op = "create_collection"
    /\ UNCHANGED <<config, units, embedding_model, qdrant_manager, llm_providers_cache,
                   ctor_count, ctor_failed>>
    /\ \E listing \in ClientGetCollections :
         LET listed == Call("get_collections", [result |-> listing])
         IN IF listing.raised
            THEN /\ store' = store
                 /\ last' = CreateObserved(collection_name, Returned(FALSE), <<listed>>)
            ELSE IF AlreadyExists(collection_name, listing.value)
            THEN /\ store' = store
                 /\ last' = CreateObserved(collection_name, Returned(FALSE), <<listed>>)
            ELSE \E created \in ClientCreateCollection(collection_name) :
                   /\ store' = created.store_after
                   /\ last' = CreateObserved(collection_name, Returned(~created.raised),
                                             << listed,
                                                Call("create_collection",
                                                     [ collection_name |-> collection_name,
                                                       raised |-> created.raised ]) >>)

-----------------------------------------------------------------------------
(* The offline initialization script  (src/backend/src/init_database.py)   *)

\* What self.client.delete_collection can do, with the store it leaves.
ClientDeleteCollection ==
    { [raised |-> FALSE, store_after |-> None],
      [raised |-> TRUE, store_after |-> store],
      [raised |-> TRUE, store_after |-> None] }

\* What self.client.upsert of all the fables can do, with the store it leaves:
\* it raises when the collection does not exist.
ClientUpsert ==
    IF store = None
    THEN { [raised |-> TRUE, store_after |-> store] }
    ELSE { [raised |-> FALSE, store_after |-> Some(store[1] \cup PointIds)],
           [raised |-> TRUE, store_after |-> store] }

\* A variant that goes on to the collection info whatever the insert returned.
AfterInsert_Always(success) == "info"

\* if success: ... else: print("Initialization failed")
AfterInsert(success) == IF success THEN "info" ELSE "returned"

\* The script has made one more call and stands at the next statement.
Stepped(pc, call) ==
    initdb' = Some([pc |-> pc, trace |-> initdb[1].trace \o <<call>>])

At(pc) == initdb # None /\ initdb[1].pc = pc

\* init_database.py 25-37: load the data, construct the embedder and the manager.
init_start ==
    /\ initdb = None
    /\ \E ok \in BOOLEAN :
         initdb' = Some([pc |-> IF ok THEN "delete" ELSE "raised", trace |-> <<>>])
    /\ UNCHANGED <<config, ollama, cli, race, embedding_model, qdrant_manager,
                   llm_providers_cache, store, ctor_count, ctor_failed, last>>

\* init_database.py 40: qdrant.delete_collection(COLLECTION_NAME); the manager
\* returns False when the client raises, and the script ignores the value.
init_delete ==
    /\ At("delete")
    /\ \E deleted \in ClientDeleteCollection :
         /\ store' = deleted.store_after
         /\ Stepped("create", Call("delete_collection", [result |-> ~deleted.raised]))
    /\ UNCHANGED <<config, ollama, cli, race, embedding_model, qdrant_manager,
                   llm_providers_cache, ctor_count, ctor_failed, last>>

\* init_database.py 43-44: qdrant.create_collection(COLLECTION_NAME, ...); the
\* script ignores the value.
init_create ==
    /\ At("create")
    /\ \E listing \in ClientGetCollections :
         IF listing.raised \/ AlreadyExists(COLLECTION_NAME, listing.value)
         THEN /\ store' = store
              /\ Stepped("encode", Call("create_collection", [result |-> FALSE]))
         ELSE \E created \in ClientCreateCollection(COLLECTION_NAME) :
                /\ store' = created.store_after
                /\ Stepped("encode", Call("create_collection", [result |-> ~created.raised]))
    /\ UNCHANGED <<config, ollama, cli, race, embedding_model, qdrant_manager,
                   llm_providers_cache, ctor_count, ctor_failed, last>>

\* init_database.py 49-56: embedding_model.encode(texts, show_progress=True)
init_encode ==
    /\ At("encode")
    /\ \E raised \in BOOLEAN :
         Stepped(IF raised THEN "raised" ELSE "insert",
                 Call("encode", [texts |-> PointIds, raised |-> raised]))
    /\ UNCHANGED <<config, ollama, cli, race, embedding_model, qdrant_manager,
                   llm_providers_cache, store, ctor_count, ctor_failed, last>>

\* init_database.py 62-85: success = qdrant.insert_vectors(...)
init_insert ==
    /\ At("insert")
    /\ \E upserted \in ClientUpsert :
         /\ store' = upserted.store_after
         /\ Stepped(AfterInsert(~upserted.raised),
                    Call("insert_vectors", [ids |-> PointIds, result |-> ~upserted.raised]))
    /\ UNCHANGED <<config, ollama, cli, race, embedding_model, qdrant_manager,
                   llm_providers_cache, ctor_count, ctor_failed, last>>

\* init_database.py 91-97: info = qdrant.get_collection_info(COLLECTION_NAME)
init_info ==
    /\ At("info")
    /\ \E client_raises \in BOOLEAN :
         Stepped("test_encode",
                 Call("get_collection_info",
                      [result |-> get_collection_info(COLLECTION_NAME, client_raises)]))
    /\ UNCHANGED <<config, ollama, cli, race, embedding_model, qdrant_manager,
                   llm_providers_cache, store, ctor_count, ctor_failed, last>>

\* init_database.py 101-104: query_vector = embedding_model.encode_single(test_query)
init_test_encode ==
    /\ At("test_encode")
    /\ \E raised \in BOOLEAN :
         Stepped(IF raised THEN "raised" ELSE "test_search",
                 Call("encode_single", [raised |-> raised]))
    /\ UNCHANGED <<config, ollama, cli, race, embedding_model, qdrant_manager,
                   llm_providers_cache, store, ctor_count, ctor_failed, last>>

\* init_database.py 105-115: results = qdrant.search(..., limit=3), printed.
init_test_search ==
    /\ At("test_search")
    /\ LET client_call == QdrantSearchCall(COLLECTION_NAME, encode_single("a story"), 3, None)
       IN \E reply \in ClientSearch(client_call) :
            Stepped("returned",
                    Call("search", [ limit |-> client_call.limit,
                                     score_threshold |-> client_call.score_threshold,
                                     count |-> Len(QdrantSearchReturn(reply).value) ]))
    /\ UNCHANGED <<config, ollama, cli, race, embedding_model, qdrant_manager,
                   llm_providers_cache, store, ctor_count, ctor_failed, last>>

InitDbNext ==
    \/ init_start
    \/ init_delete
    \/ init_create
    \/ init_encode
    \/ init_insert
    \/ init_info
    \/ init_test_encode
    \/ init_test_search

-----------------------------------------------------------------------------
(* Startup  (src/src/dependencies.py init_dependencies)                    *)

\* init_dependencies constructs the embedder, then the store manager; either
\* constructor may raise, which leaves what was not yet assigned at None.
init_dependencies ==
    /\ Idle
    /\ embedding_model = None /\ qdrant_manager = None
    /\ \E embedder_ok, manager_ok \in BOOLEAN :
         /\ embedding_model' = IF embedder_ok THEN Some("EmbeddingModel") ELSE None
         /\ qdrant_manager' = IF embedder_ok /\ manager_ok THEN Some("QdrantManager") ELSE None
    /\ UNCHANGED <<config, units, llm_providers_cache, store, ctor_count, ctor_failed, last>>

-----------------------------------------------------------------------------
(* Two POST /generate requests in flight together                          *)
(* (src/src/handlers/generate.py, src/src/dependencies.py)                 *)

Tasks == {1, 2}

\* The places where the coroutine generate_answer awaits, handing the event
\* loop to another request: the body of the handler has no await expression.
AwaitPoints_Construct == {"construct"}

AwaitPoints == {}

NewTask == [pc |-> "arrived", status_code |-> 0, cause |-> "", constructed |-> FALSE,
            llm |-> None]

\* The cache key the two requests resolve to.
RaceKey ==
    LET provider_name == ResolveProvider(race[1].body)
    IN CacheKey(provider_name, SelectModel(race[1].body, provider_name))

\* Two requests with the same body arrive while the cache is empty.
race_arrive(body) ==
    /\ race = None
    /\ body \in GenerateBodies
    /\ GenerateRequestValid(body)
    /\ race' = Some([body |-> body, running |-> 0, tasks |-> [t \in Tasks |-> NewTask]])
    /\ UNCHANGED <<config, ollama, cli, initdb, embedding_model, qdrant_manager, llm_providers_cache,
                   store, ctor_count, ctor_failed, last>>

\* The event loop runs the next step of task t: it is free, or t holds it.
Holds(t) == race # None /\ race[1].running \in {0, t}

\* Task t has taken a step; it keeps the loop unless it finished or awaits.
Advance(t, task) ==
    race' = Some([race[1] EXCEPT !.tasks[t] = task,
                                 !.running = IF task.pc = "done" \/ task.pc \in AwaitPoints
                                             THEN 0 ELSE t])

Finish(task, status_code, cause) ==
    [task EXCEPT !.pc = "done", !.status_code = status_code, !.cause = cause]

\* generate.py 21-43: the checks before the cache is consulted, and the test
\* `cache_key not in deps.llm_providers_cache`.
race_resolve(t) ==
    /\ Holds(t)
    /\ race[1].tasks[t].pc = "arrived"
    /\ LET task == race[1].tasks[t]
           body == race[1].body
           provider_name == ResolveProvider(body)
           selected_model == SelectModel(body, provider_name)
       IN Advance(t, IF NotInitialized THEN Finish(task, 503, "uninitialized")
                     ELSE IF ProviderRejected(provider_name) THEN Finish(task, 400, "provider")
                     ELSE IF ModelRejected(provider_name, selected_model)
                     THEN Finish(task, 400, "model")
                     ELSE IF NeedsConstruction(CacheKey(provider_name, selected_model))
                     THEN [task EXCEPT !.pc = "construct"]
                     ELSE [task EXCEPT !.pc = "cached"])
    /\ UNCHANGED <<config, ollama, cli, initdb, embedding_model, qdrant_manager, llm_providers_cache,
                   store, ctor_count, ctor_failed, last>>

\* generate.py 44-48: construct the backend and store it under the key.
race_construct(t) ==
    /\ Holds(t)
    /\ race[1].tasks[t].pc = "construct"
    /\ LET task == race[1].tasks[t]
           body == race[1].body
           provider_name == ResolveProvider(body)
           selected_model == SelectModel(body, provider_name)
           cache_key == CacheKey(provider_name, selected_model)
       IN \E env \in ConstructionEnvs(provider_name) :
            LET made == get_llm_provider(provider_name, selected_model, env)
            IN IF made.raised
               THEN /\ Advance(t, Finish(task, 500, "construction"))
                    /\ llm_providers_cache' = CacheAfterFailure(llm_providers_cache, cache_key)
                    /\ ctor_failed' = ctor_failed \cup {cache_key}
                    /\ UNCHANGED ctor_count
               ELSE LET counted == Counted(ctor_count, cache_key)
                        llm == [ ident |-> <<cache_key, counted[cache_key]>>,
                                 kind |-> made.value.kind,
                                 model |-> made.value.model ]
                    IN /\ ctor_count' = counted
                       /\ UNCHANGED ctor_failed
                       /\ llm_providers_cache' = CacheStore(llm_providers_cache, cache_key, llm)
                       /\ Advance(t, [task EXCEPT !.pc = "cached", !.constructed = TRUE])
    /\ UNCHANGED <<config, ollama, cli, initdb, embedding_model, qdrant_manager, store, last>>

\* generate.py 50: llm = deps.llm_providers_cache[cache_key]
race_lookup(t) ==
    /\ Holds(t)
    /\ race[1].tasks[t].pc = "cached"
    /\ LET task == race[1].tasks[t]
       IN Advance(t, IF RaceKey \in DOMAIN llm_providers_cache
                     THEN [task EXCEPT !.pc = "generate",
                                       !.llm = Some(llm_providers_cache[RaceKey])]
                     ELSE Finish(task, 500, "lookup"))
    /\ UNCHANGED <<config, ollama, cli, initdb, embedding_model, qdrant_manager, llm_providers_cache,
                   store, ctor_count, ctor_failed, last>>

\* generate.py 52-115: retrieval, llm.generate and the response.
race_generate(t) ==
    /\ Holds(t)
    /\ race[1].tasks[t].pc = "generate"
    /\ LET task == race[1].tasks[t]
       IN \E run \in GenerateRuns(task.llm[1].kind) :
            LET generated == BackendGenerate(task.llm[1].kind, run)
            IN Advance(t, IF generated.raised \/ AnswerMissing(generated.value)
                          THEN Finish(task, 500, "generation")
                          ELSE Finish(task, 200, ""))
    /\ UNCHANGED <<config, ollama, cli, initdb, embedding_model, qdrant_manager, llm_providers_cache,
                   store, ctor_count, ctor_failed, last>>

RaceNext ==
    \/ init_dependencies
    \/ \E body \in GenerateBodies : race_arrive(body)
    \/ \E t \in Tasks : race_resolve(t)
    \/ \E t \in Tasks : race_construct(t)
    \/ \E t \in Tasks : race_lookup(t)
    \/ \E t \in Tasks : race_generate(t)

-----------------------------------------------------------------------------
Init ==
    /\ \E c \in Configs :
         /\ LLM_PROVIDERS = c.providers
         /\ LLM_DEFAULT_PROVIDER = c.default
         /\ OLLAMA_MODELS = c.models
    /\ embedding_model = None
    /\ qdrant_manager = None
    /\ llm_providers_cache = <<>>
    /\ store \in {None, Some(PointIds)}
    /\ ctor_count = <<>>
    /\ ctor_failed = {}
    /\ ollama = None
    /\ cli = None
    /\ race = None
    /\ initdb = None
    /\ last = NoRequest

Next ==
    \/ init_dependencies
    \/ \E body \in SearchBodies : search_fables(body)
    \/ \E body \in GenerateBodies : generate_answer(body)
    \/ list_models
    \/ health_check
    \/ backend_health_check
    \/ create_collection(COLLECTION_NAME)
    \/ \E fable_id \in FableIds : get_fable_by_id(fable_id)
    \/ send_response

Spec == Init /\ [][Next]_vars

\* An Ollama object constructed and used on its own.
SpecOllama == Init /\ [][OllamaNext]_vars

\* Generate calls of the CLI backends on their own, step by step.
SpecCLI == Init /\ [][CLINext]_vars

\* Two /generate requests for one cache key, in flight together.
SpecRace == Init /\ [][RaceNext]_vars

\* A run of the initialization script against the store.
SpecInitDb == Init /\ [][InitDbNext]_vars

-----------------------------------------------------------------------------
(* Properties                                                              *)

\* The positions in the last request's call log of the calls of a function.
CallsOf(fn) == {i \in 1..Len(last.calls) : last.calls[i].fn = fn}

Called(fn) == CallsOf(fn) # {}

\* The arguments and result of the (first) call of a function in the last request.
TheCall(fn) == last.calls[CHOOSE i \in CallsOf(fn) : \A j \in CallsOf(fn) : i <= j].args

\* Both dependencies are constructed.
Initialized == embedding_model # None /\ qdrant_manager # None

\* The last request was a /generate request that passed the schema.
GenerateHandled == last.op = "generate" /\ GenerateRequestValid(last.request)

\* The last request was a /search request that passed the schema.
SearchHandled == last.op = "search" /\ SearchRequestValid(last.request)

\* The last request called no collaborator and left the provider cache as it was.
NoBackendTouched == last.calls = <<>> /\ llm_providers_cache = last.cache_before

\* The provider of the last /generate request, read as "request.provider if
\* given, else the default", where any provider in the body counts as given.
ProviderIfGiven ==
    IF last.request.provider # None THEN last.request.provider[1] ELSE LLM_DEFAULT_PROVIDER

\* The same, where an empty provider string counts as not given.
ProviderIfNonEmpty ==
    IF last.request.provider # None /\ last.request.provider[1] # ""
    THEN last.request.provider[1] ELSE LLM_DEFAULT_PROVIDER

\* C1 as stated: on an initialized system, a /generate request whose provider
\* (request.provider if given, else the default) is outside the allow-list is
\* answered 400 and touches no backend.
C1_AsStated ==
    (GenerateHandled /\ Initialized /\ ~InList(ProviderIfGiven, LLM_PROVIDERS))
        => (last.status_code = 400 /\ NoBackendTouched)

\* C1: on an initialized system, a /generate request whose provider
\* (request.provider if given and not empty, else the default) is outside the
\* allow-list is answered 400; get_llm_provider, the embedder, the store and
\* every backend are left alone and the provider cache is unchanged.
C1_RejectedProviderTouchesNothing ==
    (GenerateHandled /\ Initialized /\ ~InList(ProviderIfNonEmpty, LLM_PROVIDERS))
        => (last.status_code = 400 /\ NoBackendTouched)

\* A request naming a provider that is not enabled was answered 400.
C1_Witness ==
    /\ GenerateHandled /\ Initialized
    /\ last.request.provider = Some("codex")
    /\ ~InList("codex", LLM_PROVIDERS)
    /\ last.status_code = 400

\* The last /generate request asked for a model outside the model allow-list.
RequestedModelOutside ==
    /\ last.request.ollama_model # None
    /\ ~InList(last.request.ollama_model[1], OLLAMA_MODELS)

\* C2 as stated: a /generate request whose resolved provider is ollama and
\* whose requested model is outside the allow-list is answered 400 and
\* touches no backend.
C2_AsStated ==
    (GenerateHandled /\ ProviderIfNonEmpty = "ollama" /\ RequestedModelOutside)
        => (last.status_code = 400 /\ NoBackendTouched)

\* C2: on an initialized system, a /generate request whose resolved provider
\* is ollama and whose requested model is not empty and outside the
\* allow-list is answered 400, with no backend constructed or invoked and the
\* provider cache unchanged.
C2_RejectedModelTouchesNothing ==
    (GenerateHandled /\ Initialized /\ ProviderIfNonEmpty = "ollama"
       /\ RequestedModelOutside /\ last.request.ollama_model # Some(""))
        => (last.status_code = 400 /\ NoBackendTouched)

\* An enabled ollama was asked for a model outside a non-empty allow-list: 400.
C2_Witness ==
    /\ GenerateHandled /\ Initialized
    /\ ProviderIfNonEmpty = "ollama" /\ InList("ollama", LLM_PROVIDERS)
    /\ last.request.ollama_model = Some("m2") /\ OLLAMA_MODELS = <<"m1">>
    /\ last.status_code = 400

\* The cache key of the last /generate request, when it got as far as the cache.
ReachedCache == GenerateHandled /\ last.cache_key # None

LastKey == last.cache_key[1]

\* C3: once a cache key's backend has been constructed, every later request
\* for the key is served by that same instance without another constructor
\* call: each cached key has been constructed exactly once and holds the
\* instance of that one construction.
C3_CachedInstanceReused ==
    /\ DOMAIN ctor_count = DOMAIN llm_providers_cache
    /\ \A k \in DOMAIN llm_providers_cache :
         ctor_count[k] = 1 /\ llm_providers_cache[k].ident = <<k, 1>>
    /\ (ReachedCache /\ LastKey \in DOMAIN last.cache_before)
         => /\ ~Called("get_llm_provider")
            /\ Called("generate") => TheCall("generate").llm = last.cache_before[LastKey]

\* A request was answered 200 by the instance an earlier request had cached.
C3_Witness ==
    /\ ReachedCache /\ LastKey \in DOMAIN last.cache_before
    /\ last.status_code = 200
    /\ TheCall("generate").llm = last.cache_before[LastKey]

\* The last request called get_llm_provider and it raised.
ConstructionFailed ==
    ReachedCache /\ Called("get_llm_provider") /\ TheCall("get_llm_provider").result.raised

\* The last request called get_llm_provider and it returned a backend.
ConstructionSucceeded ==
    ReachedCache /\ Called("get_llm_provider") /\ ~TheCall("get_llm_provider").result.raised

\* C4: a failed construction stores nothing (the cache is as it was before
\* the request); a request for a key that is not cached, such as one whose
\* construction failed before, calls the constructor; and when that succeeds
\* the request goes on to retrieval and the instance is cached.
C4_FailedConstructionNotCached ==
    /\ ConstructionFailed
         => /\ llm_providers_cache = last.cache_before
            /\ LastKey \notin DOMAIN llm_providers_cache
            /\ last.status_code = 500
    /\ (ReachedCache /\ LastKey \notin DOMAIN last.cache_before) => Called("get_llm_provider")
    /\ ConstructionSucceeded
         => /\ LastKey \in DOMAIN llm_providers_cache
            /\ llm_providers_cache[LastKey].kind = TheCall("get_llm_provider").result.value.kind
            /\ Called("encode_single")

\* A key whose construction had failed was constructed by a later request,
\* which was answered 200 and left the instance in the cache.
C4_Witness ==
    /\ ConstructionSucceeded
    /\ LastKey \in last.failed_before
    /\ last.status_code = 200
    /\ LastKey \in DOMAIN llm_providers_cache

\* C5: no request removes or replaces a cache entry: every entry the cache
\* held before the last request is still there, bound to the same instance,
\* which is the first one constructed for its key.
C5_CacheOnlyGrows ==
    /\ \A k \in DOMAIN last.cache_before :
         k \in DOMAIN llm_providers_cache /\ llm_providers_cache[k] = last.cache_before[k]
    /\ \A k \in DOMAIN llm_providers_cache : llm_providers_cache[k].ident = <<k, 1>>

\* A /generate request whose backend returned None ran with two keys cached.
C5_Witness ==
    /\ GenerateHandled /\ Called("generate")
    /\ TheCall("generate").result.value = None
    /\ Cardinality(DOMAIN last.cache_before) >= 2
    /\ DOMAIN last.cache_before \subseteq DOMAIN llm_providers_cache

\* The backend's generate returned None in the last request.
ReturnedNone ==
    /\ GenerateHandled /\ Called("generate")
    /\ ~TheCall("generate").result.raised
    /\ TheCall("generate").result.value = None

\* C6: when the backend's generate returns None the response is the 500
\* "LLM failed to generate response", not re-wrapped as "Generate failed",
\* and carries no answer and no sources.
C6_NullSentinelIs500 ==
    ReturnedNone
        => /\ last.status_code = 500
           /\ last.detail = "LLM failed to generate response"
           /\ last.body = None

\* The ollama backend's request failed and the response was the 500.
C6_Witness ==
    /\ ReturnedNone
    /\ TheCall("generate").llm.kind = "Ollama"
    /\ last.status_code = 500

CLIKinds == {"ClaudeCLI", "GeminiCLI", "CodexCLI"}

\* The runs of a CLI tool that are failures.
FailedRuns == {"nonzero_exit", "timeout", "exception", "filter_failed"}

\* C7: a CLI backend whose run exits non-zero, times out, cannot be spawned
\* or parsed, or (codex) whose filter process fails, returns None without
\* raising, and the request it serves is answered with the 500 failure
\* response.
C7_CLIFailureIsNoneAnd500 ==
    (GenerateHandled /\ Called("generate")
       /\ TheCall("generate").llm.kind \in CLIKinds
       /\ TheCall("generate").run \in FailedRuns)
        => /\ ~TheCall("generate").result.raised
           /\ TheCall("generate").result.value = None
           /\ last.status_code = 500
           /\ last.detail = "LLM failed to generate response"
           /\ last.body = None

\* codex's filter process failed and the request was answered 500.
C7_Witness ==
    /\ GenerateHandled /\ Called("generate")
    /\ TheCall("generate").llm.kind = "CodexCLI"
    /\ TheCall("generate").run = "filter_failed"
    /\ last.status_code = 500

\* The last request was a /search request that searched the store.
Searched == SearchHandled /\ Called("search")

SearchResults == last.body[1].results

\* C8: a /search request that searches the store is answered 200 with at most
\* `limit` results in descending score order, which are the points the store
\* returned, one for one and in the store's order.
C8_SearchReturnsRankedList ==
    Searched
        => /\ last.status_code = 200
           /\ Len(SearchResults) <= last.request.limit
           /\ \A i, j \in 1..Len(SearchResults) :
                i < j => SearchResults[i].score >= SearchResults[j].score
           /\ last.body[1].total_results = Len(SearchResults)
           /\ ~TheCall("search").reply.raised
                => /\ Len(SearchResults) = Len(TheCall("search").reply.value)
                   /\ \A i \in 1..Len(SearchResults) :
                        /\ SearchResults[i].id = TheCall("search").reply.value[i].id
                        /\ SearchResults[i].score = TheCall("search").reply.value[i].score
                        /\ SearchResults[i].title = TheCall("search").reply.value[i].payload.title

\* A search with limit 2 returned two results, the better one first.
C8_Witness ==
    /\ Searched /\ last.status_code = 200
    /\ last.request.limit = 2
    /\ Len(SearchResults) = 2
    /\ SearchResults[1].score > SearchResults[2].score

\* C9: a /search request's score_threshold reaches the store's search as it
\* is in the request; with a threshold every result scores at least the
\* threshold, and without one the store's best `limit` points are all
\* returned whatever their scores.
C9_ThresholdPassedAndApplied ==
    Searched
        => /\ TheCall("search").call.score_threshold = last.request.score_threshold
           /\ TheCall("search").client_call.score_threshold = last.request.score_threshold
           /\ (last.request.score_threshold # None /\ last.status_code = 200)
                => \A i \in 1..Len(SearchResults) :
                     SearchResults[i].score >= last.request.score_threshold[1]
           /\ (last.request.score_threshold = None /\ ~TheCall("search").reply.raised)
                => Len(SearchResults) = Min(last.request.limit, Cardinality(store[1]))

\* A search with threshold 0.6 returned fewer points than the collection
\* holds and the limit allows: the one scoring below was left out.
C9_Witness ==
    /\ Searched /\ last.status_code = 200
    /\ last.request.score_threshold = Some(60)
    /\ last.request.limit = SEARCH_LIMIT_MAX
    /\ Len(SearchResults) = 2
    /\ Cardinality(store[1]) > 2

\* C10: QdrantManager.search does not raise; when the store client raises it
\* returns the empty list, and the /search request is answered 200 with no
\* results and total_results 0.
C10_StoreFaultGivesEmpty200 ==
    /\ Called("search") => ~TheCall("search").result.raised
    /\ (Searched /\ TheCall("search").reply.raised)
         => /\ TheCall("search").result.value = <<>>
            /\ last.status_code = 200
            /\ SearchResults = <<>>
            /\ last.body[1].total_results = 0

\* The store client raised during a /search request, which was answered 200.
C10_Witness ==
    /\ Searched /\ TheCall("search").reply.raised
    /\ last.status_code = 200

\* The last request named a provider outside the configured allow-list.
NamedProviderOutside ==
    /\ Truthy(last.request.provider)
    /\ ~InList(last.request.provider[1], LLM_PROVIDERS)

\* C11 as stated: while the embedder or the store manager is not constructed
\* every /search, /generate and /health request is answered 503.
C11_AsStated ==
    (last.op \in {"search", "generate", "health"} /\ ~Initialized)
        => last.status_code = 503

\* C11: while the embedder or the store manager is not constructed, a
\* /search or /generate request that passes schema validation and any /health
\* request is answered 503, and so is a /fables request while the store
\* manager is missing; no collaborator is called, no provider is resolved (no
\* cache key is formed) and the provider cache is as it was.
C11_UninitializedIs503First ==
    /\ ((SearchHandled \/ GenerateHandled \/ last.op = "health") /\ ~Initialized)
         => /\ last.status_code = 503
            /\ last.cache_key = None
            /\ NoBackendTouched
    /\ (last.op = "fables" /\ qdrant_manager = None)
         => last.status_code = 503 /\ NoBackendTouched

\* With the embedder constructed and the store manager missing, a /generate
\* request naming a provider outside the allow-list was answered 503.
C11_Witness ==
    /\ GenerateHandled
    /\ embedding_model # None /\ qdrant_manager = None
    /\ NamedProviderOutside
    /\ last.status_code = 503

\* The body of the last request has a limit outside max's range or an empty query.
BodyOutOfRange(max) ==
    \/ last.request.limit < 1
    \/ last.request.limit > max
    \/ last.request.query = ""

\* C12: every store search issued by /search asks for 1..20 points and every
\* one issued by /generate for 1..10; a body whose limit is outside its range
\* or whose query is empty is answered 422 with no embedder, store or backend
\* call and the provider cache as it was.
C12_LimitInRangeOr422 ==
    /\ (last.op = "search" /\ Called("search"))
         => /\ TheCall("search").call.limit \in 1..SEARCH_LIMIT_MAX
            /\ TheCall("search").client_call.limit = last.request.limit
    /\ (last.op = "generate" /\ Called("search"))
         => /\ TheCall("search").call.limit \in 1..GENERATE_LIMIT_MAX
            /\ TheCall("search").client_call.limit = last.request.limit
    /\ (last.op = "search" /\ BodyOutOfRange(SEARCH_LIMIT_MAX))
         => last.status_code = 422 /\ NoBackendTouched
    /\ (last.op = "generate" /\ BodyOutOfRange(GENERATE_LIMIT_MAX))
         => last.status_code = 422 /\ NoBackendTouched

\* On an initialized system with a cached backend, a /generate body with
\* limit 11 was answered 422.
C12_Witness ==
    /\ last.op = "generate"
    /\ last.request.limit = GENERATE_LIMIT_MAX + 1
    /\ Initialized
    /\ DOMAIN last.cache_before # {}
    /\ last.status_code = 422

\* The last request was a /health request, of either app, on an initialized system.
HealthHandled == last.op \in {"health", "backend_health"} /\ Initialized

\* C13: on an initialized system /health answers 503 when the collection's
\* info is absent and 200 "healthy" with the collection's point count
\* otherwise, in the handlers package and in the standalone backend app alike:
\* the 503 for a missing collection is still a 503 after the handler's except
\* clauses.
C13_HealthIs503WithoutCollection ==
    HealthHandled
        => /\ Called("get_collection_info")
           /\ TheCall("get_collection_info").result = None
                => last.status_code = 503 /\ last.body = None
           /\ TheCall("get_collection_info").result # None
                => /\ last.status_code = 200
                   /\ last.body[1].status = "healthy"
                   /\ last.body[1].total_fables = Cardinality(store[1])

\* The backend app's /health found no collection and answered 503.
C13_Witness ==
    /\ last.op = "backend_health" /\ Initialized
    /\ TheCall("get_collection_info").result = None
    /\ store = None
    /\ last.status_code = 503

\* The last request was a /fables request that asked the store for the point.
Retrieved == last.op = "fables" /\ Called("retrieve")

\* C14: /fables/{id} answers 404 exactly when the store returns no point for
\* the id, with the 404's own detail rather than a 500; it answers 200 with
\* the point's fields when the store returns one, and 500 when the store
\* raises.
C14_FableFoundOr404 ==
    Retrieved
        => /\ (last.status_code = 404)
                <=> (~TheCall("retrieve").result.raised
                       /\ TheCall("retrieve").result.value = <<>>)
           /\ last.status_code = 404
                => last.detail = "Fable with ID " \o Str(last.request[1]) \o " not found"
           /\ (~TheCall("retrieve").result.raised /\ TheCall("retrieve").result.value # <<>>)
                => /\ last.status_code = 200
                   /\ last.body[1].id = last.request[1]
                   /\ last.body[1].title = Payload(last.request[1]).title
                   /\ last.body[1].moral = Payload(last.request[1]).moral
           /\ TheCall("retrieve").result.raised
                => last.status_code = 500 /\ last.body = None

\* The store held the collection but not the id asked for: 404.
C14_Witness ==
    /\ Retrieved
    /\ store # None /\ last.request[1] \notin store[1]
    /\ ~TheCall("retrieve").result.raised
    /\ last.status_code = 404

\* The last operation was a create_collection call.
CreateCalled == last.op = "create_collection"

\* The collection existed when the last create_collection call began.
ExistedBefore == last.request.store_before # None

\* The store client raised during the last create_collection call.
CreateFaulted ==
    \/ TheCall("get_collections").result.raised
    \/ Called("create_collection") /\ TheCall("create_collection").raised

\* C15: create_collection returns a boolean and never raises; for a name that
\* exists it returns False, issues no create call and leaves the store as it
\* is; for an absent name it issues one create call and, unless the store
\* faults, the collection exists afterwards and it returns True; after a call
\* that returned True the next call in a row returns False without a create
\* call and with the store unchanged; a store fault gives False.
C15_CreateCollectionRefuses ==
    CreateCalled
        => /\ ~last.body[1].raised
           /\ last.body[1].value \in BOOLEAN
           /\ ExistedBefore
                => /\ last.body[1].value = FALSE
                   /\ ~Called("create_collection")
                   /\ store = last.request.store_before
           /\ (~ExistedBefore /\ ~CreateFaulted)
                => /\ Cardinality(CallsOf("create_collection")) = 1
                   /\ store # None
                   /\ last.body[1].value = TRUE
           /\ (last.request.previous # None /\ last.request.previous[1].value = TRUE)
                => /\ last.body[1].value = FALSE
                   /\ ~Called("create_collection")
                   /\ store = last.request.store_before
           /\ CreateFaulted => last.body[1].value = FALSE

\* The second of two calls in a row, the first of which created the collection.
C15_Witness ==
    /\ CreateCalled
    /\ last.request.previous # None /\ last.request.previous[1].value = TRUE
    /\ last.body[1].value = FALSE
    /\ store = Some({})

\* The last operation constructed an Ollama object: what was asked for, what
\* the daemon listed, and what the constructor did.
OllamaMade == last.op = "Ollama"

Requested == last.request.model

Listed == last.request.listing

NoModels == Listed.raised \/ Listed.models = <<>>

\* C16: the Ollama constructor takes the active model from the daemon's
\* listing: a requested model that is listed becomes active, one that is not
\* listed fails the construction as not found, without a request the first
\* listed model becomes active, and with no models available (the listing
\* empty or failed) construction fails as no models available; a constructed
\* object's active model is among its listed models.
C16_ConstructorSelectsListedModel ==
    OllamaMade
        => /\ NoModels
                => /\ last.body[1].raised
                   /\ last.body[1].exc.message = "No models available"
           /\ (~NoModels /\ Requested # None /\ InList(Requested[1], Listed.models))
                => ~last.body[1].raised /\ last.body[1].value.model = Requested
           /\ (~NoModels /\ Requested # None /\ ~InList(Requested[1], Listed.models))
                => /\ last.body[1].raised
                   /\ last.body[1].exc.message = "Model '" \o Requested[1] \o "' not found"
           /\ (~NoModels /\ Requested = None)
                => ~last.body[1].raised /\ last.body[1].value.model = Some(Listed.models[1])
           /\ ~last.body[1].raised
                => /\ ollama = Some(last.body[1].value)
                   /\ ollama[1].available_models = Listed.models
                   /\ InList(ollama[1].model[1], ollama[1].available_models)

\* Constructed without a request against a listing of two: the first listed
\* model is active.
C16_Witness ==
    /\ OllamaMade
    /\ Requested = None
    /\ Listed.models = <<"m2", "m1">>
    /\ ollama # None /\ ollama[1].model = Some("m2")

\* The last operation was a set_model call on the Ollama object.
ModelSet == last.op = "set_model"

\* C17: the active model of an Ollama object is always one of its listed
\* models; set_model with a listed name makes the name active, and with an
\* unlisted name it raises and leaves the object as it was.
C17_ActiveModelIsListed ==
    /\ ollama # None => InList(ollama[1].model[1], ollama[1].available_models)
    /\ ModelSet
         => /\ InList(last.request.model_name, last.request.self.available_models)
                 => /\ ~last.body[1].raised
                    /\ ollama[1].model = Some(last.request.model_name)
                    /\ ollama[1].available_models = last.request.self.available_models
            /\ ~InList(last.request.model_name, last.request.self.available_models)
                 => /\ last.body[1].raised
                    /\ ollama[1] = last.request.self

\* set_model with an unlisted name raised after an earlier set_model had
\* switched the model away from the constructor's choice.
C17_Witness ==
    /\ ModelSet
    /\ last.body[1].raised
    /\ ollama[1].available_models = <<"m2", "m1">>
    /\ ollama[1].model = Some("m1")

\* The provider names get_llm_provider dispatches on.
RegistryNames == {"ollama", "gemini_cli", "claude_code", "codex"}

\* The last /generate request named a provider the registry does not know.
NamedUnknownProvider ==
    /\ GenerateHandled
    /\ Truthy(last.request.provider)
    /\ last.request.provider[1] \notin RegistryNames

\* C18 as stated, taken on an initialized system: a /generate request that
\* names a provider outside the registry's variant set is answered with a
\* 400- or 422-class error, never a 5xx, and leaves the provider cache as it
\* was, whatever the allow-list contains.
C18_AsStated ==
    (NamedUnknownProvider /\ Initialized)
        => /\ last.status_code \in {400, 422}
           /\ llm_providers_cache = last.cache_before

\* The collaborators a /search or /generate request can call.
Collaborators == {"get_llm_provider", "encode_single", "search", "generate"}

\* A logged collaborator call failed: it raised, or generate returned None.
CallFailed(c) ==
    CASE c.fn = "get_llm_provider" -> c.args.result.raised
      [] c.fn = "encode_single" -> c.args.raised
      [] c.fn = "search" -> c.args.result.raised
      [] c.fn = "generate" -> c.args.result.raised \/ c.args.result.value = None
      [] OTHER -> FALSE

CLIReturned == cli # None /\ cli[1].pc = "returned"

Generated == GenerateHandled /\ last.status_code = 200

\* The list the store manager's search returned to the last request.
Found == TheCall("search").result.value

Sources == last.body[1].sources

\* C21: the sources of a successful /generate response are the passages the
\* store search returned to the request, one for one in the same order, at
\* most `limit` of them, each with its search score; the prompt's context is
\* built from that same list.
C21_SourcesAreSearchResults ==
    Generated
        => /\ Len(Sources) = Len(Found)
           /\ Len(Sources) <= last.request.limit
           /\ \A i \in 1..Len(Sources) :
                /\ Sources[i].id = Found[i].id
                /\ Sources[i].score = Found[i].score
                /\ Sources[i].title = Found[i].payload.title
                /\ Sources[i].content = Found[i].payload.content
                /\ Sources[i].moral = Found[i].payload.moral
           /\ TheCall("generate").prompt
                = BuildPrompt(BuildContext(Found), last.request.query)

\* A successful response with three sources, the best strictly better than
\* the last.
C21_Witness ==
    /\ Generated
    /\ Len(Sources) = 3
    /\ Sources[1].score > Sources[3].score

\* The model the last request resolved: the one it asked for unless that is
\* absent or empty, else the first allow-listed model, else none.
ResolvedModel ==
    IF Truthy(last.request.ollama_model) THEN last.request.ollama_model
    ELSE IF OLLAMA_MODELS # <<>> THEN Some(OLLAMA_MODELS[1]) ELSE None

\* The descriptor and the cache key that go with a provider name.
DescriptorOf(provider_name) ==
    IF provider_name = "ollama" THEN "ollama (" \o Fmt(ResolvedModel) \o ")"
    ELSE provider_name

KeyOf(provider_name) ==
    IF provider_name = "ollama" THEN "ollama:" \o Fmt(ResolvedModel)
    ELSE provider_name

\* The backend class the registry builds for a provider name.
KindOf(provider_name) ==
    CASE provider_name = "ollama" -> "Ollama"
      [] provider_name = "gemini_cli" -> "GeminiCLI"
      [] provider_name = "claude_code" -> "ClaudeCLI"
      [] provider_name = "codex" -> "CodexCLI"
      [] OTHER -> "none"

AllowedOllamaKeys == {"ollama:" \o OLLAMA_MODELS[i] : i \in 1..Len(OLLAMA_MODELS)}

\* The last /generate request constructed, or generated with, an ollama backend.
OllamaUsed ==
    /\ GenerateHandled
    /\ \/ Called("get_llm_provider") /\ TheCall("get_llm_provider").provider_name = "ollama"
       \/ Called("generate") /\ TheCall("generate").llm.kind = "Ollama"

\* C23 as stated: whenever /generate constructs or invokes the ollama backend
\* the model it resolved is in the model allow-list, and the provider cache
\* holds no ollama key whose model part is outside the allow-list, whatever the
\* allow-list is.
C23_AsStated ==
    /\ OllamaUsed
         => ResolvedModel # None /\ InList(ResolvedModel[1], OLLAMA_MODELS)
    /\ \A k \in DOMAIN llm_providers_cache :
         llm_providers_cache[k].kind = "Ollama" => k \in AllowedOllamaKeys

\* C24: when get_llm_provider raises in /generate the response is the 500
\* "Failed to initialize <provider>: <error>", which is neither the
\* generation-failure nor the "Generate failed" error, and the request made no
\* other call: no embedding, no store search, no generate.
C24_InitializationErrorEndsRequest ==
    ConstructionFailed
        => /\ last.status_code = 500
           /\ last.detail = "Failed to initialize " \o ProviderIfNonEmpty \o ": "
                            \o TheCall("get_llm_provider").result.exc.message
           /\ last.detail # "LLM failed to generate response"
           /\ last.detail # "Generate failed: "
                             \o TheCall("get_llm_provider").result.exc.message
           /\ Len(last.calls) = 1
           /\ ~Called("encode_single") /\ ~Called("search") /\ ~Called("generate")
           /\ last.body = None

\* The codex executable was missing: 500 "Failed to initialize codex: ...".
C24_Witness ==
    /\ ConstructionFailed
    /\ last.detail = "Failed to initialize codex: codex CLI not found"

\* The requests of the pair that are between their first step and their response.
InProgress == { t \in Tasks : race[1].tasks[t].pc \notin {"arrived", "done"} }

BothFinished == \A t \in Tasks : race[1].tasks[t].pc = "done"

\* What holds of the pair whichever request runs first: no request fails at
\* the cache lookup, a request that answers 200 generated with the instance
\* cached under its key, and afterwards the cache holds that key only.
RaceOutcome ==
    /\ \A t \in Tasks : race[1].tasks[t].cause # "lookup"
    /\ \A t \in Tasks :
         race[1].tasks[t].status_code = 200
           => /\ RaceKey \in DOMAIN llm_providers_cache
              /\ race[1].tasks[t].llm = Some(llm_providers_cache[RaceKey])
    /\ BothFinished
         => /\ DOMAIN llm_providers_cache \subseteq {RaceKey}
            /\ (\E t \in Tasks : race[1].tasks[t].constructed)
                 => RaceKey \in DOMAIN llm_providers_cache

\* C25 as stated: of two /generate requests for one unseen cache key,
\* construction is not serialized (while one request is between the cache
\* test and the cache write the other can run), neither fails because of the
\* race, each generates with an instance for its key, and the cache ends up
\* with one instance for the key.
C25_AsStated ==
    race # None
      => /\ \A t, u \in Tasks :
              (t # u /\ race[1].tasks[t].pc = "construct" /\ race[1].tasks[u].pc = "arrived")
                => ENABLED race_resolve(u)
         /\ RaceOutcome

\* C25 as amended: two /generate requests for one unseen cache key are handled
\* one after the other; a backend is constructed successfully at most once for
\* the key, the request that runs second finding the first one's instance;
\* neither fails because of the other, each request that answers generated
\* with the one cached instance, and the cache ends up with that instance only.
C25_RequestsRunOneAtATime ==
    race # None
      => /\ Cardinality(InProgress) <= 1
         /\ \A k \in DOMAIN ctor_count : ctor_count[k] = 1
         /\ \A t \in Tasks :
              race[1].tasks[t].status_code = 200
                => race[1].tasks[t].llm[1].ident = <<RaceKey, 1>>
         /\ Cardinality({ t \in Tasks : race[1].tasks[t].constructed }) <= 1
         /\ RaceOutcome

C25_Witness ==
    /\ race # None
    /\ BothFinished
    /\ race[1].tasks[1].status_code = 200 /\ race[1].tasks[2].status_code = 200
    /\ race[1].tasks[2].constructed /\ ~race[1].tasks[1].constructed
    /\ llm_providers_cache[RaceKey].ident = <<RaceKey, 1>>

\* The calls the script has made, by name, in order.
ScriptCalls == [ i \in 1..Len(initdb[1].trace) |-> initdb[1].trace[i].fn ]

ScriptOrder ==
    << "delete_collection", "create_collection", "encode", "insert_vectors",
       "get_collection_info", "encode_single", "search" >>

InsertResult == initdb[1].trace[4].args.result

\* C29: init_fables_collection calls, in this order and once each, delete
\* collection, create collection, encode of all texts, insert; it fetches the
\* collection info and runs the test search only when the insert returned
\* True; when the insert returned False it does neither and returns without
\* raising; when the encoding raises, the exception propagates and no insert
\* is attempted.
C29_ScriptStepsInOrder ==
    initdb # None
      => /\ Len(ScriptCalls) <= Len(ScriptOrder)
         /\ ScriptCalls = SubSeq(ScriptOrder, 1, Len(ScriptCalls))
         /\ Len(ScriptCalls) > 4 => InsertResult
         /\ (Len(ScriptCalls) >= 4 /\ ~InsertResult)
              => /\ initdb[1].pc = "returned"
                 /\ Len(ScriptCalls) = 4
         /\ (Len(ScriptCalls) >= 3 /\ initdb[1].trace[3].args.raised)
              => /\ initdb[1].pc = "raised"
                 /\ Len(ScriptCalls) = 3
         /\ initdb[1].pc = "returned"
              => Len(ScriptCalls) = IF InsertResult THEN 7 ELSE 4
         /\ Len(ScriptCalls) >= 4
              => /\ initdb[1].trace[3].args.texts = PointIds
                 /\ initdb[1].trace[4].args.ids = PointIds

C29_Witness ==
    /\ initdb # None
    /\ initdb[1].pc = "returned"
    /\ Len(ScriptCalls) = 4
    /\ ~InsertResult
    /\ initdb[1].trace[1].args.result
    /\ store = None

\* The operations served at query time.
QueryOps == {"search", "generate", "health", "backend_health", "fables", "models"}

\* The collaborator calls that read: embedder, backends, and the store's
\* search, retrieve and collection info.
ReadCalls ==
    {"encode_single", "search", "retrieve", "get_collection_info", "get_llm_provider",
     "generate"}

\* C26: no query-time operation (/search, /generate, /health, /fables/{id},
\* /models) creates or deletes a collection or upserts points: handling one
\* leaves the store as it was and makes only reading calls; a step that
\* changes the store is a call of the manager's create_collection, which only
\* the initialization script makes.
C26_QueriesLeaveStoreAlone ==
    [][ /\ (last = NoRequest /\ last'.op \in QueryOps)
             => /\ store' = store
                /\ \A i \in 1..Len(last'.calls) : last'.calls[i].fn \in ReadCalls
        /\ store' # store => last'.op = "create_collection" ]_vars

\* A /generate request answered 200 after a search of a store with points,
\* which are all still there.
C26_Witness ==
    /\ GenerateHandled
    /\ last.status_code = 200
    /\ Called("search")
    /\ Len(TheCall("search").result.value) > 0
    /\ store = Some(PointIds)

\* The last request was a /generate request that searched the store.
GenerateSearched == GenerateHandled /\ Called("search")

\* C27: the search a /generate request issues carries no score threshold: it
\* passes the collection, the query's vector and limit = the request's limit,
\* and the store's best `limit` points all come back whatever their scores; a
\* store search with a threshold belongs to a /search request.
C27_GenerateSearchHasNoThreshold ==
    /\ GenerateSearched
         => /\ TheCall("search").call.score_threshold = None
            /\ TheCall("search").client_call.score_threshold = None
            /\ TheCall("search").call.collection_name = COLLECTION_NAME
            /\ TheCall("search").call.query_vector = encode_single(last.request.query)
            /\ TheCall("search").call.limit = last.request.limit
            /\ ~TheCall("search").reply.raised
                 => Len(Found) = Min(last.request.limit, Cardinality(store[1]))
    /\ (Called("search") /\ TheCall("search").client_call.score_threshold # None)
         => last.op = "search"

\* A /generate request got back every stored point, the best scoring 0.8 and
\* another 0.6.
C27_Witness ==
    /\ GenerateSearched
    /\ ~TheCall("search").reply.raised
    /\ Len(Found) = NumPoints
    /\ Found[1].score = 80
    /\ \E i \in 1..Len(Found) : Found[i].score = 60

\* The prompt the backend's generate was called with.
Prompt == TheCall("generate").prompt

\* A prompt: the instruction, a context, the question and the closing request.
PromptAround(context, query) ==
    "Based on the following fables, answer the user's question.\n\n" \o context
    \o "\n\nUser's question: " \o query
    \o "\n\nPlease provide a helpful answer based on the fables above. Reference specific fables when relevant."

\* The entry of the i-th result as the claim words it.
StatedEntry(i) ==
    Str(i) \o ": " \o Found[i].payload.title \o " / " \o Found[i].payload.content
    \o " / " \o Found[i].payload.moral

\* The entry of the i-th result: three labelled lines.
LabelledEntry(i) ==
    "Fable " \o Str(i) \o ": " \o Found[i].payload.title
    \o "\nContent: " \o Found[i].payload.content
    \o "\nMoral: " \o Found[i].payload.moral

\* C28 as stated: the prompt is the instruction template around the context
\* and the literal query, the context being the entries
\* "<index>: <title> / <content> / <moral>" of the results in ranked order,
\* numbered from 1 and joined by blank lines.
C28_AsStated ==
    (GenerateHandled /\ Called("generate"))
        => Prompt = PromptAround(Join("\n\n", [i \in 1..Len(Found) |-> StatedEntry(i)]),
                                 last.request.query)

\* C28 as amended: the same with each entry rendered as the three lines
\* "Fable <index>: <title>", "Content: <content>", "Moral: <moral>".
C28_ContextIsRankedEntries ==
    (GenerateHandled /\ Called("generate"))
        => Prompt = PromptAround(Join("\n\n", [i \in 1..Len(Found) |-> LabelledEntry(i)]),
                                 last.request.query)

\* The backend was called with a context of three entries.
C28_Witness ==
    /\ GenerateHandled /\ Called("generate")
    /\ Len(Found) = 3
    /\ Found[1].id # Found[2].id

\* C30: when the store client raises during a /generate request, the search
\* returns the empty list and the request goes on: the backend's generate is
\* called exactly once, with the prompt of an empty context; if it returns
\* text the response is 200 with that answer and no sources, and the response
\* is an error only when the backend's generate itself failed.
C30_StoreFaultContinuesToGenerate ==
    (GenerateSearched /\ TheCall("search").reply.raised)
        => /\ Found = <<>>
           /\ Cardinality(CallsOf("generate")) = 1
           /\ Prompt = PromptAround("", last.request.query)
           /\ (~TheCall("generate").result.raised
                /\ TheCall("generate").result.value # None)
                => /\ last.status_code = 200
                   /\ last.body[1].answer = TheCall("generate").result.value[1]
                   /\ Sources = <<>>
           /\ last.status_code # 200
                => \/ TheCall("generate").result.raised
                   \/ TheCall("generate").result.value = None

\* The store client raised during a /generate request, which was answered
\* 200 with the backend's text and no sources.
C30_Witness ==
    /\ GenerateSearched /\ TheCall("search").reply.raised
    /\ last.status_code = 200
    /\ Sources = <<>>
    /\ last.body[1].answer # ""

====
